---- MODULE Spec2Model ----
(***************************************************************************)
(* Model of the inferior-process controller of deet                        *)
(* (src/proj-1/deet/src/inferior.rs): the tracee (a small program under    *)
(* ptrace), the breakpoint table, write_byte, continue_process and         *)
(* continue_from_breakpoint, one action per ptrace interaction.            *)
(***************************************************************************)
EXTENDS Integers, Sequences, FiniteSets, TLC

\* ------------------------------------------------------------------ bounds
\* longest list of breakpoint addresses the caller requests (new + set_breakpoint)
MaxBps == 2
\* most disturbances from outside the controller in one run (a signal sent to
\* the tracee, a wait that fails)
MaxDisturb == 1
\* most calls of kill() in one run
MaxKills == 2

\* ------------------------------------------------------- program constants
\* 0xcc, the int3 opcode written by set_breakpoint and continue_from_breakpoint
TrapOpcode == 204
\* size_of::<usize>() on x86-64
WordSize == 8

\* ------------------------------------------------------- 64-bit word maths
\* A u64 is modelled bit by bit (bit 0 is the least significant), so that the
\* shifts and masks of write_byte are computed exactly as the code does.
Bits == 0..63

RECURSIVE Pow2(_)
Pow2(n) == IF n = 0 THEN 1 ELSE 2 * Pow2(n - 1)

\* a small natural (< 2^16) as a u64
u64(n) == [i \in Bits |-> IF i < 16 THEN (n \div Pow2(i)) % 2 ELSE 0]

shl(w, n) == [i \in Bits |-> IF i >= n THEN w[i - n] ELSE 0]
shr(w, n) == [i \in Bits |-> IF i + n <= 63 THEN w[i + n] ELSE 0]
bit_and(a, b) == [i \in Bits |-> a[i] * b[i]]
bit_or(a, b) == [i \in Bits |-> IF a[i] + b[i] > 0 THEN 1 ELSE 0]
bit_not(a) == [i \in Bits |-> 1 - a[i]]

\* byte j (0..7) of a word, as a number
byte_of(w, j) ==
    w[8 * j] + 2 * w[8 * j + 1] + 4 * w[8 * j + 2] + 8 * w[8 * j + 3]
    + 16 * w[8 * j + 4] + 32 * w[8 * j + 5] + 64 * w[8 * j + 6] + 128 * w[8 * j + 7]

\* `x as u8`
as_u8(w) == byte_of(w, 0)

\* addr & (-(size_of::<usize>() as isize) as usize)
align_addr_to_word(addr) == addr - (addr % WordSize)

\* ------------------------------------------------------------- the tracee
\* The target program: sixteen bytes of text mapped at 8..23.
\*    8: nop            9: call foo (3 bytes)   12: call foo (2 bytes)
\*   14: exit(0)       16: foo: push rbp        17: mov (2 bytes)
\*   19: pop rbp       20: ret
Mapped == 8..23
TextBytes == <<144, 232, 5, 0, 232, 2, 244, 0, 85, 72, 137, 93, 195, 0, 0, 0>>
ProgramBytes == [a \in Mapped |-> TextBytes[a - 7]]

Prog ==
    (8 :> [len |-> 1, op |-> "nop", arg |-> 0])
    @@ (9 :> [len |-> 3, op |-> "call", arg |-> 16])
    @@ (12 :> [len |-> 2, op |-> "call", arg |-> 16])
    @@ (14 :> [len |-> 1, op |-> "exit", arg |-> 0])
    @@ (16 :> [len |-> 1, op |-> "push", arg |-> 0])
    @@ (17 :> [len |-> 2, op |-> "mov", arg |-> 0])
    @@ (19 :> [len |-> 1, op |-> "pop", arg |-> 0])
    @@ (20 :> [len |-> 1, op |-> "ret", arg |-> 0])
InstrStarts == DOMAIN Prog
EntryAddr == CHOOSE a \in InstrStarts : \A b \in InstrStarts : a <= b
FooAddr == Prog[EntryAddr + 1].arg

\* what the stack holds below a frame pointer, and where a wild jump lands
FpMark == 0 - 1
WildAddr == 0 * WordSize

\* the addresses the caller may ask a breakpoint at: instruction starts, and
\* one address outside the mapped text
UnmappedAddr == 5 * WordSize
BpCandidates == {EntryAddr, EntryAddr + 1, FooAddr, FooAddr + 1, UnmappedAddr}

\* Stop events (Status), all of one shape
Stopped(sig, rip) == [kind |-> "Stopped", sig |-> sig, val |-> rip]
Exited(code) == [kind |-> "Exited", sig |-> "-", val |-> code]
Signaled(sig) == [kind |-> "Signaled", sig |-> sig, val |-> 0]
NoEvent == [kind |-> "None", sig |-> "-", val |-> 0]
\* results returned to the caller: Ok(status) is the status, Err(e) is ErrRet
ErrRet == [kind |-> "Err", sig |-> "-", val |-> 0]

VARIABLES
    mem,              \* tracee memory, byte by byte
    rip,              \* tracee program counter
    stack,            \* tracee stack (return addresses and saved frame pointers)
    tstate,           \* "nochild" | "stopped" | "running" | "stepping" | "zombie" | "reaped"
    event,            \* the tracee's latest wait status
    faulted,          \* the instruction at rip has raised a fault
    executed,         \* program instructions the tracee has executed (0: a mis-decoded one)
    breakpoints_map,  \* Inferior.breakpoints_map: addr -> Breakpoint
    ctl,              \* where the controller is
    bp,               \* argument of continue_from_breakpoint
    rip2,             \* rip bound by the match at line 225
    requested,        \* breakpoint addresses the caller has asked for, in order
    firstHit,         \* breakpoint whose trap the first continue_process call detected
    firstRet,         \* what the first continue_process call returned
    lastRet,          \* what the latest continue_process call returned
    wb,               \* record of a write_byte call on arbitrary memory
    disturb,          \* disturbances from outside so far
    newWait,          \* what the first wait of Inferior::new reported
    klog,             \* kill(): calls so far, results of child.kill() and child.wait()
    lastWait,         \* what the caller's latest call of wait() returned
    wt,               \* record of a wait() on an arbitrary waitpid result
    bt,               \* print_backtrace: its inputs and its progress
    ip,               \* farm: record of one call of is_prime
    farm,             \* farm: the queue, the worker threads and main
    pm,               \* parallel_map: the channels, the worker threads and the caller
    lb                \* balancebeam: upstream table, connection handlers, health check

vars == <<mem, rip, stack, tstate, event, faulted, executed, breakpoints_map, ctl,
          bp, rip2, requested, firstHit, firstRet, lastRet, wb,
          disturb, newWait, klog, lastWait, wt, bt, ip, farm, pm, lb>>

traceeVars == <<rip, stack, tstate, event, faulted, executed>>
histVars == <<firstHit, firstRet, lastRet>>
callVars == <<newWait, klog, lastWait>>
progVars == <<ip, farm, pm, lb>>
pureVars == <<wb, wt, bt, progVars>>
deetVars == <<mem, traceeVars, breakpoints_map, ctl, bp, rip2, requested, histVars,
              disturb, callVars, wb, wt, bt>>

\* the other programs of the repository, not started
NoIp == [done |-> FALSE]
NoFarm == [main |-> "off"]
NoPm == [main |-> "off"]
NoLb == [on |-> FALSE]
ProgsIdle == ip = NoIp /\ farm = NoFarm /\ pm = NoPm /\ lb = NoLb

NoWb == [done |-> FALSE, addr |-> 0, val |-> 0, before |-> ProgramBytes, ret |-> 0]

\* ------------------------------------------------ memory patcher (ptrace)
\* ptrace::read / ptrace::write succeed only on a stopped tracee and a mapped word
CanAccess(ts, aligned) == ts = "stopped" /\ aligned \in Mapped

\* ptrace::read: the little-endian word at an aligned address
ptrace_read(m, aligned) ==
    [i \in Bits |-> (m[aligned + (i \div 8)] \div Pow2(i % 8)) % 2]

\* ptrace::write: store the eight bytes of a word
ptrace_write(m, aligned, word) ==
    [a \in DOMAIN m |->
        IF a >= aligned /\ a < aligned + WordSize THEN byte_of(word, a - aligned) ELSE m[a]]

\* (word >> 8 * byte_offset) & 0xff
orig_byte_of(word, byte_offset) == as_u8(bit_and(shr(word, 8 * byte_offset), u64(255)))

\* word & !(0xff << 8 * byte_offset)
masked_word(word, byte_offset) == bit_and(word, bit_not(shl(u64(255), 8 * byte_offset)))

updated_word_nomask(word, byte_offset, val) == bit_or(word, shl(u64(val), 8 * byte_offset))

\* masked_word | ((val as u64) << 8 * byte_offset)
updated_word(word, byte_offset, val) ==
    bit_or(masked_word(word, byte_offset), shl(u64(val), 8 * byte_offset))

\* Inferior::write_byte: Ok(orig_byte) with the patched memory, or Err
write_byte(m, ts, addr, val) ==
    LET aligned_addr == align_addr_to_word(addr)
        byte_offset == addr - aligned_addr
    IN  IF ~CanAccess(ts, aligned_addr)
        THEN [ok |-> FALSE, mem |-> m, orig_byte |-> 0]
        ELSE LET word == ptrace_read(m, aligned_addr)
             IN  [ok |-> TRUE,
                  mem |-> ptrace_write(m, aligned_addr, updated_word(word, byte_offset, val)),
                  orig_byte |-> orig_byte_of(word, byte_offset)]

\* a set_breakpoint that inserts the entry whatever write_byte returned
set_breakpoint_ignore_err(m, bpm, ts, addr) ==
    LET r == write_byte(m, ts, addr, TrapOpcode)
    IN  [mem |-> r.mem,
         map |-> (addr :> [addr |-> addr, orig_byte |-> r.orig_byte]) @@ bpm]

\* ------------------------------------------------------- breakpoint table
\* Inferior::set_breakpoint: on Ok the entry is inserted (HashMap::insert
\* replaces an entry already present), on Err only a message is printed
set_breakpoint(m, bpm, ts, addr) ==
    LET r == write_byte(m, ts, addr, TrapOpcode)
    IN  IF r.ok
        THEN [mem |-> r.mem,
              map |-> (addr :> [addr |-> addr, orig_byte |-> r.orig_byte]) @@ bpm]
        ELSE [mem |-> m, map |-> bpm]

\* the loop of Inferior::new over the requested addresses
RECURSIVE install_all(_, _, _, _)
install_all(m, bpm, ts, bps) ==
    IF bps = <<>>
    THEN [mem |-> m, map |-> bpm]
    ELSE LET s == set_breakpoint(m, bpm, ts, Head(bps))
         IN  install_all(s.mem, s.map, ts, Tail(bps))

contains_key(bpm, a) == a \in DOMAIN bpm

\* --------------------------------------------------------- the tracee CPU
\* the bytes of the instruction at a are those of the program
Intact(m, a) == \A i \in 0..(Prog[a].len - 1) : m[a + i] = ProgramBytes[a + i]

\* one program instruction, executed at an instruction start
Execute(pc, stk) ==
    LET ins == Prog[pc]
        nxt == pc + ins.len
    IN  CASE ins.op = "call" ->
                [rip |-> ins.arg, stack |-> Append(stk, nxt), exit |-> FALSE]
          [] ins.op = "push" ->
                [rip |-> nxt, stack |-> Append(stk, FpMark), exit |-> FALSE]
          [] ins.op = "pop" ->
                [rip |-> nxt,
                 stack |-> IF stk = <<>> THEN stk ELSE SubSeq(stk, 1, Len(stk) - 1),
                 exit |-> FALSE]
          [] ins.op = "ret" ->
                IF stk # <<>> /\ stk[Len(stk)] \in InstrStarts
                THEN [rip |-> stk[Len(stk)], stack |-> SubSeq(stk, 1, Len(stk) - 1),
                      exit |-> FALSE]
                ELSE [rip |-> WildAddr,
                      stack |-> IF stk = <<>> THEN stk ELSE SubSeq(stk, 1, Len(stk) - 1),
                      exit |-> FALSE]
          [] ins.op = "exit" ->
                [rip |-> pc, stack |-> stk, exit |-> TRUE]
          [] OTHER ->
                [rip |-> nxt, stack |-> stk, exit |-> FALSE]

\* the run of the program with no tracer: the instructions it executes
RECURSIVE RunRef(_, _, _)
RunRef(pc, stk, fuel) ==
    IF fuel = 0 \/ pc \notin InstrStarts
    THEN <<>>
    ELSE LET e == Execute(pc, stk)
         IN  IF e.exit THEN <<pc>> ELSE <<pc>> \o RunRef(e.rip, e.stack, fuel - 1)
RefTrace == RunRef(EntryAddr, <<>>, 4 * Cardinality(InstrStarts))

\* what the CPU can do at rip: "trap" (int3), "ok" (a program instruction),
\* "exit", "fault" (SIGSEGV), or "wild" (bytes that are no instruction of the
\* program were decoded and executed; execution resumes at a later instruction)
LaterStarts(pc) == {a \in InstrStarts : a > pc}
CpuOutcomes(m, pc, stk, flt) ==
    IF pc \notin Mapped \/ flt
    THEN {[what |-> "fault", rip |-> pc, stack |-> stk]}
    ELSE IF m[pc] = TrapOpcode
    THEN {[what |-> "trap", rip |-> pc + 1, stack |-> stk]}
    ELSE IF pc \in InstrStarts /\ Intact(m, pc)
    THEN LET e == Execute(pc, stk)
         IN  {[what |-> IF e.exit THEN "exit" ELSE "ok", rip |-> e.rip, stack |-> e.stack]}
    ELSE {[what |-> "fault", rip |-> pc, stack |-> stk]}
         \cup {[what |-> "wild", rip |-> a, stack |-> stk] :
                  a \in {b \in LaterStarts(pc) : \A c \in LaterStarts(pc) : b <= c}}

\* ------------------------------------------------------------ the machine
SeqsUpTo(S, n) == UNION {[1..k -> S] : k \in 0..n}

PanicRet == [kind |-> "Panic", sig |-> "-", val |-> 0]
NoKlog == [n |-> 0, alive |-> FALSE, kill |-> "-", wait |-> NoEvent, cached |-> NoEvent]
NoWt == [done |-> FALSE, wp |-> NoEvent, wpOk |-> TRUE, regsOk |-> TRUE, regsRip |-> 0,
         out |-> NoEvent]
NoBt == [phase |-> "off"]

\* the controller and the tracee before Inferior::new
MachineInit ==
    /\ rip = EntryAddr
    /\ stack = <<>>
    /\ faulted = FALSE
    /\ executed = <<>>
    /\ breakpoints_map = [a \in {} |-> 0]
    /\ ctl = "start"
    /\ bp = 0
    /\ rip2 = 0
    /\ requested = <<>>
    /\ firstHit = 0
    /\ firstRet = NoEvent
    /\ lastRet = NoEvent
    /\ disturb = 0
    /\ newWait = NoEvent
    /\ klog = NoKlog
    /\ lastWait = NoEvent

Init ==
    /\ MachineInit
    /\ ProgsIdle
    /\ mem = ProgramBytes
    /\ tstate = "nochild"
    /\ event = NoEvent
    /\ wb = NoWb
    /\ wt = NoWt
    /\ bt = NoBt

\* a wait that turns an unexpected status into an ordinary error
wait_status_lenient(wpOk, wp, regsOk, regsRip) ==
    IF ~wpOk THEN ErrRet
    ELSE CASE wp.kind = "Exited" -> Exited(wp.val)
           [] wp.kind = "Signaled" -> Signaled(wp.sig)
           [] wp.kind = "Stopped" -> IF regsOk THEN Stopped(wp.sig, regsRip) ELSE ErrRet
           [] OTHER -> ErrRet

\* Inferior::wait, lines 82-90, on the result of waitpid (wpOk: it returned
\* Ok(wp)) and of getregs (regsOk: it returned registers with rip = regsRip)
wait_status(wpOk, wp, regsOk, regsRip) ==
    IF ~wpOk THEN ErrRet
    ELSE CASE wp.kind = "Exited" -> Exited(wp.val)
           [] wp.kind = "Signaled" -> Signaled(wp.sig)
           [] wp.kind = "Stopped" -> IF regsOk THEN Stopped(wp.sig, regsRip) ELSE ErrRet
           [] OTHER -> PanicRet

\* a wait that reports a terminated tracee as stopped
wait_no_exit(ts, ev) ==
    IF ts \in {"stopped", "zombie"} THEN Stopped("SIGTRAP", ev.val)
    ELSE wait_status(FALSE, ev, FALSE, 0)

\* Inferior::wait: the status waitpid reports once the tracee has stopped or
\* terminated (rip is read with getregs on a stop); Err once it is reaped
wait(ts, ev) ==
    IF ts \in {"stopped", "zombie"} THEN wait_status(TRUE, ev, TRUE, ev.val)
    ELSE wait_status(FALSE, ev, FALSE, 0)
after_wait(ts) == IF ts = "zombie" THEN "reaped" ELSE ts
CanWait == tstate \in {"stopped", "zombie", "reaped"}

\* what a call of wait() can yield now: its status, the tracee's state after
\* it and the disturbances counted; a wait on a stopped or terminated tracee
\* may fail (waitpid or getregs returns Err) and then changes nothing
WaitOutcomes ==
    {[status |-> wait(tstate, event), ts |-> after_wait(tstate), d |-> disturb]}
    \cup (IF disturb < MaxDisturb /\ tstate \in {"stopped", "zombie"}
          THEN {[status |-> ErrRet, ts |-> tstate, d |-> disturb + 1]}
          ELSE {})

IsTrapStop(status) == status.kind = "Stopped" /\ status.sig = "SIGTRAP"

\* a call of continue_process returns r to the caller
Return(r) ==
    /\ ctl' = "idle"
    /\ lastRet' = r
    /\ firstRet' = IF firstRet = NoEvent THEN r ELSE firstRet
    /\ bp' = 0
    /\ rip2' = 0

\* Inferior::new, lines 53-62: the target is spawned and stops at its entry
\* after the exec, or the spawn fails and expect() panics
Spawn ==
    /\ ctl = "start"
    /\ \/ /\ tstate' = "stopped"
          /\ event' = Stopped("SIGTRAP", EntryAddr)
          /\ ctl' = "new_wait"
          /\ UNCHANGED newWait
       \/ /\ ctl' = "panic"
          /\ newWait' = [kind |-> "SpawnErr", sig |-> "-", val |-> 0]
          /\ UNCHANGED <<tstate, event>>
    /\ UNCHANGED <<mem, rip, stack, faulted, executed, breakpoints_map, bp, rip2, requested,
                   histVars, disturb, klog, lastWait, pureVars>>

\* Inferior::new, lines 63-71: the first wait, then every requested address
\* is installed
New ==
    /\ ctl = "new_wait"
    /\ CanWait
    /\ \E bps \in SeqsUpTo(BpCandidates, MaxBps), w \in WaitOutcomes :
          LET s == install_all(mem, breakpoints_map, w.ts, bps)
          IN  /\ tstate' = w.ts
              /\ disturb' = w.d
              /\ newWait' = w.status
              /\ IF w.status.kind = "Err"
                 THEN /\ ctl' = "none"
                      /\ UNCHANGED <<mem, breakpoints_map, requested>>
                 ELSE /\ ctl' = "idle"
                      /\ mem' = s.mem
                      /\ breakpoints_map' = s.map
                      /\ requested' = bps
    /\ UNCHANGED <<rip, stack, event, faulted, executed, bp, rip2, histVars, klog, lastWait,
                   pureVars>>

\* the caller installs one more breakpoint
SetBreakpointCall ==
    /\ ctl = "idle"
    /\ Len(requested) < MaxBps
    /\ \E a \in BpCandidates :
          LET s == set_breakpoint(mem, breakpoints_map, tstate, a)
          IN  /\ mem' = s.mem
              /\ breakpoints_map' = s.map
              /\ requested' = Append(requested, a)
    /\ UNCHANGED <<traceeVars, ctl, bp, rip2, histVars, disturb, callVars, pureVars>>

\* continue_process, line 117: ptrace::cont(pid, None)?
ContinueProcessCall ==
    /\ ctl = "idle"
    /\ IF tstate = "stopped"
       THEN /\ tstate' = "running"
            /\ ctl' = "cp_wait"
            /\ UNCHANGED <<bp, rip2, histVars>>
       ELSE /\ Return(ErrRet)
            /\ UNCHANGED <<tstate, firstHit>>
    /\ UNCHANGED <<mem, rip, stack, event, faulted, executed, breakpoints_map, requested,
                   disturb, callVars, pureVars>>

\* the tracee executes one instruction while it runs or single-steps
TraceeStep ==
    /\ tstate \in {"running", "stepping"}
    /\ \E o \in CpuOutcomes(mem, rip, stack, faulted) :
          /\ rip' = o.rip
          /\ stack' = o.stack
          /\ faulted' = (o.what = "fault")
          /\ executed' = CASE o.what \in {"ok", "exit"} -> Append(executed, rip)
                           [] o.what = "wild" -> Append(executed, 0)
                           [] OTHER -> executed
          /\ CASE o.what = "trap" ->
                    tstate' = "stopped" /\ event' = Stopped("SIGTRAP", o.rip)
               [] o.what = "fault" ->
                    tstate' = "stopped" /\ event' = Stopped("SIGSEGV", o.rip)
               [] o.what = "exit" ->
                    tstate' = "zombie" /\ event' = Exited(0)
               [] OTHER ->
                    IF tstate = "stepping"
                    THEN tstate' = "stopped" /\ event' = Stopped("SIGTRAP", o.rip)
                    ELSE UNCHANGED <<tstate, event>>
    /\ UNCHANGED <<mem, breakpoints_map, ctl, bp, rip2, requested, histVars, disturb,
                   callVars, pureVars>>

\* a signal from outside the controller reaches the tracee: SIGKILL
\* terminates it in any state, another signal stops it while it runs
ExternalSignal ==
    /\ disturb < MaxDisturb
    /\ disturb' = disturb + 1
    /\ \/ /\ tstate \in {"stopped", "running", "stepping"}
          /\ tstate' = "zombie"
          /\ event' = Signaled("SIGKILL")
       \/ /\ tstate = "running"
          /\ tstate' = "stopped"
          /\ \E sig \in {"SIGINT", "SIGTRAP"} : event' = Stopped(sig, rip)
    /\ UNCHANGED <<mem, rip, stack, faulted, executed, breakpoints_map, ctl, bp, rip2,
                   requested, histVars, callVars, pureVars>>

\* a continue_process that takes every SIGTRAP stop for a breakpoint hit
CpWaitAnyTrap ==
    /\ ctl = "cp_wait"
    /\ CanWait
    /\ \E w \in WaitOutcomes :
          /\ tstate' = w.ts
          /\ disturb' = w.d
          /\ IF IsTrapStop(w.status)
             THEN /\ ctl' = "cfb_step"
                  /\ bp' = w.status.val - 1
                  /\ firstHit' = IF firstRet = NoEvent THEN w.status.val - 1 ELSE firstHit
                  /\ UNCHANGED <<rip2, firstRet, lastRet>>
             ELSE /\ Return(w.status)
                  /\ UNCHANGED firstHit
    /\ UNCHANGED <<mem, rip, stack, event, faulted, executed, breakpoints_map, requested,
                   callVars, pureVars>>

\* continue_process, lines 118-130: the wait and the breakpoint test
CpWait ==
    /\ ctl = "cp_wait"
    /\ CanWait
    /\ \E w \in WaitOutcomes :
          /\ tstate' = w.ts
          /\ disturb' = w.d
          /\ IF IsTrapStop(w.status) /\ contains_key(breakpoints_map, w.status.val - 1)
             THEN /\ ctl' = "cfb_step"
                  /\ bp' = w.status.val - 1
                  /\ firstHit' = IF firstRet = NoEvent THEN w.status.val - 1 ELSE firstHit
                  /\ UNCHANGED <<rip2, firstRet, lastRet>>
             ELSE /\ Return(w.status)
                  /\ UNCHANGED firstHit
    /\ UNCHANGED <<mem, rip, stack, event, faulted, executed, breakpoints_map, requested,
                   callVars, pureVars>>

\* continue_from_breakpoint, line 216: ptrace::step(pid, SIGTRAP), result
\* dropped. The tracee is resumed for one instruction with SIGTRAP injected:
\* it either takes the signal's default action (terminated by SIGTRAP) or
\* survives it and executes one instruction.
CfbStep ==
    /\ ctl = "cfb_step"
    /\ ctl' = "cfb_wait1"
    /\ IF tstate = "stopped"
       THEN \/ tstate' = "stepping" /\ UNCHANGED event
            \/ tstate' = "zombie" /\ event' = Signaled("SIGTRAP")
       ELSE UNCHANGED <<tstate, event>>
    /\ UNCHANGED <<mem, rip, stack, faulted, executed, breakpoints_map, bp, rip2, requested,
                   histVars, disturb, callVars, pureVars>>

\* lines 217-219 and 242-244: wait for the single-step's stop
CfbWait1 ==
    /\ ctl = "cfb_wait1"
    /\ CanWait
    /\ \E w \in WaitOutcomes :
          /\ tstate' = w.ts
          /\ disturb' = w.d
          /\ IF IsTrapStop(w.status)
             THEN ctl' = "cfb_rearm" /\ UNCHANGED <<bp, rip2, firstRet, lastRet>>
             ELSE Return(w.status)
    /\ UNCHANGED <<mem, rip, stack, event, faulted, executed, breakpoints_map, requested,
                   firstHit, callVars, pureVars>>

\* a re-arm that writes the saved byte in place of the trap opcode
CfbRearmOrigByte ==
    /\ ctl = "cfb_rearm"
    /\ LET r == write_byte(mem, tstate, bp, breakpoints_map[bp].orig_byte)
       IN  IF r.ok THEN mem' = r.mem /\ ctl' = "cfb_cont1"
                   ELSE ctl' = "panic" /\ UNCHANGED mem
    /\ UNCHANGED <<traceeVars, breakpoints_map, bp, rip2, requested, histVars, disturb,
                   callVars, pureVars>>

\* lines 220-221: write_byte(bp, 0xcc).expect(..)
CfbRearm ==
    /\ ctl = "cfb_rearm"
    /\ LET r == write_byte(mem, tstate, bp, TrapOpcode)
       IN  IF r.ok THEN mem' = r.mem /\ ctl' = "cfb_cont1"
                   ELSE ctl' = "panic" /\ UNCHANGED mem
    /\ UNCHANGED <<traceeVars, breakpoints_map, bp, rip2, requested, histVars, disturb,
                   callVars, pureVars>>

\* line 222: ptrace::cont(pid, None)?
CfbCont1 ==
    /\ ctl = "cfb_cont1"
    /\ IF tstate = "stopped"
       THEN /\ tstate' = "running"
            /\ ctl' = "cfb_wait2"
            /\ UNCHANGED <<bp, rip2, firstRet, lastRet>>
       ELSE Return(ErrRet) /\ UNCHANGED tstate
    /\ UNCHANGED <<mem, rip, stack, event, faulted, executed, breakpoints_map, requested,
                   firstHit, disturb, callVars, pureVars>>

\* lines 223-225 and 237-239: the wait of the resumed continuation
CfbWait2 ==
    /\ ctl = "cfb_wait2"
    /\ CanWait
    /\ \E w \in WaitOutcomes :
          /\ tstate' = w.ts
          /\ disturb' = w.d
          /\ IF IsTrapStop(w.status)
             THEN ctl' = "cfb_restore" /\ rip2' = w.status.val
                  /\ UNCHANGED <<bp, firstRet, lastRet>>
             ELSE Return(w.status)
    /\ UNCHANGED <<mem, rip, stack, event, faulted, executed, breakpoints_map, requested,
                   firstHit, callVars, pureVars>>

\* a restore that also takes the entry out of the table
CfbRestoreRemove ==
    /\ ctl = "cfb_restore"
    /\ IF contains_key(breakpoints_map, rip2 - 1)
       THEN LET r == write_byte(mem, tstate, rip2 - 1, breakpoints_map[rip2 - 1].orig_byte)
            IN  IF r.ok
                THEN /\ mem' = r.mem
                     /\ ctl' = "cfb_cont2"
                     /\ breakpoints_map' =
                           [a \in DOMAIN breakpoints_map \ {rip2 - 1} |-> breakpoints_map[a]]
                ELSE ctl' = "panic" /\ UNCHANGED <<mem, breakpoints_map>>
       ELSE ctl' = "cfb_cont2" /\ UNCHANGED <<mem, breakpoints_map>>
    /\ UNCHANGED <<traceeVars, bp, rip2, requested, histVars, disturb, callVars, pureVars>>

\* lines 226-233: at a known breakpoint the saved byte is written back; the
\* assignment of line 232 changes the rip field of a copy of the registers
\* and nothing is written to the tracee, whose rip stays as it is; write_byte
\* and getregs are unwrapped
CfbRestore ==
    /\ ctl = "cfb_restore"
    /\ IF contains_key(breakpoints_map, rip2 - 1)
       THEN LET r == write_byte(mem, tstate, rip2 - 1, breakpoints_map[rip2 - 1].orig_byte)
            IN  IF r.ok THEN mem' = r.mem /\ ctl' = "cfb_cont2"
                        ELSE ctl' = "panic" /\ UNCHANGED mem
       ELSE ctl' = "cfb_cont2" /\ UNCHANGED mem
    /\ UNCHANGED <<traceeVars, breakpoints_map, bp, rip2, requested, histVars, disturb,
                   callVars, pureVars>>

\* line 234: ptrace::cont(pid, None)?
CfbCont2 ==
    /\ ctl = "cfb_cont2"
    /\ IF tstate = "stopped"
       THEN /\ tstate' = "running"
            /\ ctl' = "cfb_wait3"
            /\ UNCHANGED <<bp, rip2, firstRet, lastRet>>
       ELSE Return(ErrRet) /\ UNCHANGED tstate
    /\ UNCHANGED <<mem, rip, stack, event, faulted, executed, breakpoints_map, requested,
                   firstHit, disturb, callVars, pureVars>>

\* line 235: self.wait(None) is the value of the call
CfbWait3 ==
    /\ ctl = "cfb_wait3"
    /\ CanWait
    /\ \E w \in WaitOutcomes :
          /\ Return(w.status)
          /\ tstate' = w.ts
          /\ disturb' = w.d
    /\ UNCHANGED <<mem, rip, stack, event, faulted, executed, breakpoints_map, requested,
                   firstHit, callVars, pureVars>>

\* child.kill() of std::process::Child: SIGKILL is sent while the process is
\* not reaped; once the Child has cached an exit status the call returns Ok or
\* Err without sending anything, as the library version has it
std_kill_results(ts, cached) ==
    IF cached # NoEvent THEN {"Ok", "Err"}
    ELSE IF ts \in {"stopped", "running", "stepping", "zombie"} THEN {"Ok"}
    ELSE {"Err"}

\* the tracee once child.kill() has returned
after_kill(ts) == IF ts \in {"stopped", "running", "stepping"} THEN "zombie" ELSE ts
event_after_kill(ts, ev) ==
    IF ts \in {"stopped", "running", "stepping"} THEN Signaled("SIGKILL") ELSE ev

\* child.wait() of std::process::Child: the cached status if there is one,
\* else the status of the terminated process, which it reaps; Err if some
\* other wait has reaped it
std_wait(ts, ev, cached) ==
    IF cached # NoEvent THEN cached
    ELSE IF ts = "zombie" THEN ev
    ELSE ErrRet

\* a kill() that unwraps the results of child.kill() and child.wait()
KillCallUnwrap ==
    /\ ctl = "idle"
    /\ klog.n < MaxKills
    /\ \E k \in std_kill_results(tstate, klog.cached) :
          LET ts == after_kill(tstate)
              ev == event_after_kill(tstate, event)
              st == std_wait(ts, ev, klog.cached)
          IN  /\ tstate' = IF ts = "zombie" THEN "reaped" ELSE ts
              /\ event' = ev
              /\ klog' = [n |-> klog.n + 1,
                          alive |-> IF klog.n = 0
                                    THEN tstate \in {"stopped", "running", "stepping"}
                                    ELSE klog.alive,
                          kill |-> k, wait |-> st,
                          cached |-> IF st.kind = "Err" THEN klog.cached ELSE st]
              /\ ctl' = IF k = "Err" \/ st.kind = "Err" THEN "panic" ELSE "idle"
    /\ lastWait' = NoEvent
    /\ UNCHANGED <<mem, rip, stack, faulted, executed, breakpoints_map, bp, rip2,
                   requested, histVars, disturb, newWait, pureVars>>

\* Inferior::kill, lines 133-142: child.kill() then child.wait(), each result
\* printed, whatever it is
KillCall ==
    /\ ctl = "idle"
    /\ klog.n < MaxKills
    /\ \E k \in std_kill_results(tstate, klog.cached) :
          LET ts == after_kill(tstate)
              ev == event_after_kill(tstate, event)
              st == std_wait(ts, ev, klog.cached)
          IN  /\ tstate' = IF ts = "zombie" THEN "reaped" ELSE ts
              /\ event' = ev
              /\ klog' = [n |-> klog.n + 1,
                          alive |-> IF klog.n = 0
                                    THEN tstate \in {"stopped", "running", "stepping"}
                                    ELSE klog.alive,
                          kill |-> k, wait |-> st,
                          cached |-> IF st.kind = "Err" THEN klog.cached ELSE st]
    /\ lastWait' = NoEvent
    /\ UNCHANGED <<mem, rip, stack, faulted, executed, breakpoints_map, ctl, bp, rip2,
                   requested, histVars, disturb, newWait, pureVars>>

\* the caller calls wait(None): the call blocks until the tracee has
\* something to report
WaitCall ==
    /\ ctl = "idle"
    /\ ctl' = "wait_call"
    /\ UNCHANGED <<mem, traceeVars, breakpoints_map, bp, rip2, requested, histVars, disturb,
                   callVars, pureVars>>

\* lines 81-91 for that call: a stopped tracee whose stop has been reported
\* has nothing new to report, and waitpid does not return
WaitCallReturn ==
    /\ ctl = "wait_call"
    /\ tstate \in {"zombie", "reaped"}
    /\ \E w \in WaitOutcomes :
          /\ lastWait' = w.status
          /\ tstate' = w.ts
          /\ disturb' = w.d
    /\ ctl' = "idle"
    /\ UNCHANGED <<mem, rip, stack, event, faulted, executed, breakpoints_map, bp, rip2,
                   requested, histVars, newWait, klog, pureVars>>

Next ==
    \/ Spawn
    \/ New
    \/ SetBreakpointCall
    \/ ContinueProcessCall
    \/ TraceeStep
    \/ ExternalSignal
    \/ CpWait
    \/ CfbStep
    \/ CfbWait1
    \/ CfbRearm
    \/ CfbCont1
    \/ CfbWait2
    \/ CfbRestore
    \/ CfbCont2
    \/ CfbWait3
    \/ KillCall
    \/ WaitCall
    \/ WaitCallReturn

Spec == Init /\ [][Next]_vars

\* the same machine, every step of it taken eventually while one is possible
FairSpec == Spec /\ WF_vars(Next)

\* ---------------------------------------- write_byte on arbitrary memory
\* words the patched word is drawn from, as eight bytes each, low byte first
WbWords ==
    { <<0, 0, 0, 0, 0, 0, 0, 0>>,
      <<255, 255, 255, 255, 255, 255, 255, 255>>,
      <<239, 205, 171, 137, 103, 69, 35, 1>>,
      <<170, 85, 170, 85, 204, 51, 128, 127>>,
      <<144, 232, 5, 0, 232, 2, 244, 0>> }
WbVals == {0, 85, TrapOpcode, 255}

InitWB ==
    /\ MachineInit
    /\ ProgsIdle
    /\ \E W \in WbWords :
          mem = [a \in Mapped |-> IF a < 2 * WordSize THEN W[a - 7] ELSE ProgramBytes[a]]
    /\ tstate = "stopped"
    /\ event = Stopped("SIGTRAP", EntryAddr)
    /\ wb = NoWb
    /\ wt = NoWt
    /\ bt = NoBt

\* one call write_byte(addr, val) on the stopped tracee
WbWriteByte ==
    /\ ~wb.done
    /\ \E addr \in Mapped, val \in WbVals :
          LET r == write_byte(mem, tstate, addr, val)
          IN  /\ r.ok
              /\ mem' = r.mem
              /\ wb' = [done |-> TRUE, addr |-> addr, val |-> val, before |-> mem,
                        ret |-> r.orig_byte]
    /\ UNCHANGED <<traceeVars, breakpoints_map, ctl, bp, rip2, requested, histVars, disturb,
                   callVars, wt, bt,
                   progVars>>

NextWB == WbWriteByte

SpecWB == InitWB /\ [][NextWB]_vars

\* ------------------------------------------ wait on arbitrary OS results
\* largest exit code tried
MaxExitCode == 3
WaitSignals == {"SIGTRAP", "SIGSEGV", "SIGINT", "SIGKILL"}
\* the categories of WaitStatus that Inferior::wait has no arm for
OtherCategories == {"PtraceEvent", "PtraceSyscall", "Continued", "StillAlive"}
\* what waitpid can return in Ok(..)
WaitStatuses ==
    {Exited(c) : c \in 0..MaxExitCode}
    \cup {Signaled(s) : s \in WaitSignals}
    \cup {Stopped(s, 0) : s \in WaitSignals}
    \cup {[kind |-> k, sig |-> "-", val |-> 0] : k \in OtherCategories}

InitWait ==
    /\ MachineInit
    /\ ProgsIdle
    /\ mem = ProgramBytes
    /\ tstate = "stopped"
    /\ event = Stopped("SIGTRAP", EntryAddr)
    /\ wb = NoWb
    /\ wt = NoWt
    /\ bt = NoBt

\* one call of wait(): waitpid returns Err or Ok(wp); getregs, if called,
\* returns Err or registers with some rip
WaitApply ==
    /\ ~wt.done
    /\ \E wpOk \in BOOLEAN, wp \in WaitStatuses, regsOk \in BOOLEAN, regsRip \in InstrStarts :
          wt' = [done |-> TRUE, wp |-> wp, wpOk |-> wpOk, regsOk |-> regsOk,
                 regsRip |-> regsRip,
                 out |-> wait_status(wpOk, wp, regsOk, regsRip)]
    /\ UNCHANGED <<mem, traceeVars, breakpoints_map, ctl, bp, rip2, requested, histVars,
                   disturb, callVars, wb, bt,
                   progVars>>

NextWait == WaitApply

SpecWait == InitWait /\ [][NextWait]_vars

\* -------------------------------------- print_backtrace on arbitrary stacks
\* most frames of one walk that are recorded (the walk itself is not bounded)
MaxFrames == 4
\* usize is 64 bits wide; the addresses of the walk are scaled to words of
\* BtWordBits bits, which keeps what matters of the width: base_ptr + 8 can
\* pass the largest word
BtWordBits == 16
UsizeMax == Pow2(BtWordBits) - 1
\* debug_data.get_function_from_addr: the function whose code holds pc, or
\* nothing
NoName == "-"
get_function_from_addr(pc) ==
    IF pc >= EntryAddr /\ pc < FooAddr THEN "main"
    ELSE IF pc >= FooAddr /\ pc < FooAddr + WordSize THEN "foo"
    ELSE NoName
\* .unwrap_or("Unable to get function name".to_string())
unwrap_or_placeholder(name) == IF name = NoName THEN "Unable to get function name" ELSE name

\* the part of the tracee's stack the walk can read: two frame records, each
\* a saved rbp and above it a return address
StackBase == 8 * WordSize
StackWords == {StackBase, StackBase + WordSize, StackBase + 2 * WordSize,
               StackBase + 3 * WordSize}
\* program counters: in foo, in main, in no function
PcInFoo == FooAddr + 1
PcInMain == EntryAddr + 4
PcNowhere == FooAddr + WordSize + 6
BtStacks ==
    { s \in [StackWords -> {0, StackBase, StackBase + 2 * WordSize, UsizeMax,
                            PcInFoo, PcInMain, PcNowhere}] :
        /\ s[StackBase] \in {0, StackBase, StackBase + 2 * WordSize, UsizeMax}
        /\ s[StackBase + WordSize] \in {PcInFoo, PcInMain, PcNowhere}
        /\ s[StackBase + 2 * WordSize] \in {0, StackBase}
        /\ s[StackBase + 3 * WordSize] \in {PcInMain, PcNowhere} }

InitBT ==
    /\ MachineInit
    /\ ProgsIdle
    /\ mem = ProgramBytes
    /\ tstate = "stopped"
    /\ event = Stopped("SIGTRAP", EntryAddr)
    /\ wb = NoWb
    /\ wt = NoWt
    /\ \E regsOk \in BOOLEAN, pc \in {PcInFoo, PcInMain, PcNowhere},
          fp \in {0, StackBase - WordSize, StackBase, StackBase + 2 * WordSize, UsizeMax},
          s \in BtStacks :
          bt = [phase |-> "call", regsOk |-> regsOk, rip |-> pc, rbp |-> fp, smem |-> s,
                iptr |-> 0, bptr |-> 0, frames |-> <<>>, nreads |-> 0, stop |-> "-",
                turn |-> 0]

\* lines 145-148 and 177: ptrace::getregs
BtGetRegs ==
    /\ bt.phase = "call"
    /\ bt' = IF bt.regsOk
             THEN [bt EXCEPT !.phase = "walk", !.iptr = bt.rip, !.bptr = bt.rbp]
             ELSE [bt EXCEPT !.phase = "done", !.stop = "regs"]
    /\ UNCHANGED <<mem, traceeVars, breakpoints_map, ctl, bp, rip2, requested, histVars,
                   disturb, callVars, wb, wt,
                   progVars>>

\* the frames recorded once f is printed, and the reads counted after k more
BtPrinted(frames, f) == IF Len(frames) < MaxFrames THEN Append(frames, f) ELSE frames
BtCount(n, k) == IF n + k < 2 * MaxFrames THEN n + k ELSE 2 * MaxFrames

\* reads that take the saved rbp first and the return address above it after
BtReadsAdvanceFirst(b, printed, addr) ==
    IF b.bptr \notin DOMAIN b.smem
    THEN [b EXCEPT !.frames = printed, !.nreads = BtCount(@, 1), !.phase = "done",
                   !.stop = "read_rbp"]
    ELSE IF b.smem[b.bptr] > UsizeMax - 8 \/ b.smem[b.bptr] + 8 \notin DOMAIN b.smem
    THEN [b EXCEPT !.frames = printed, !.nreads = BtCount(@, 2), !.phase = "done",
                   !.stop = "read_rip", !.bptr = b.smem[b.bptr]]
    ELSE [b EXCEPT !.frames = printed, !.nreads = BtCount(@, 2),
                   !.iptr = b.smem[b.smem[b.bptr] + 8], !.bptr = b.smem[b.bptr]]

\* reads that go on to the saved rbp after the return address could not be read
BtReadsOn(b, printed, addr) ==
    IF b.bptr \notin DOMAIN b.smem
    THEN [b EXCEPT !.frames = printed, !.nreads = BtCount(@, 2), !.phase = "done",
                   !.stop = IF addr \in DOMAIN b.smem THEN "read_rbp" ELSE "read_rip"]
    ELSE IF addr \notin DOMAIN b.smem
    THEN [b EXCEPT !.frames = printed, !.nreads = BtCount(@, 2), !.phase = "done",
                   !.stop = "read_rip", !.bptr = b.smem[b.bptr]]
    ELSE [b EXCEPT !.frames = printed, !.nreads = BtCount(@, 2),
                   !.iptr = b.smem[addr], !.bptr = b.smem[b.bptr]]

\* lines 160-174: ptrace::read at addr (base_ptr + 8), then at base_ptr; a
\* failing read ends the walk
BtReads(b, printed, addr) ==
    IF addr \notin DOMAIN b.smem
    THEN [b EXCEPT !.frames = printed, !.nreads = BtCount(@, 1), !.phase = "done",
                   !.stop = "read_rip"]
    ELSE IF b.bptr \notin DOMAIN b.smem
    THEN [b EXCEPT !.frames = printed, !.nreads = BtCount(@, 2), !.phase = "done",
                   !.stop = "read_rbp", !.iptr = b.smem[addr]]
    ELSE [b EXCEPT !.frames = printed, !.nreads = BtCount(@, 2),
                   !.iptr = b.smem[addr], !.bptr = b.smem[b.bptr]]

\* line 161: base_ptr + 8 in usize. When the sum passes the largest word a
\* build with overflow checks panics and a build without them wraps around.
BtReadOutcomes(b, printed) ==
    IF b.bptr > UsizeMax - 8
    THEN {[b EXCEPT !.frames = printed, !.phase = "panic", !.stop = "overflow"],
          BtReads(b, printed, b.bptr - (UsizeMax - 7))}
    ELSE {BtReads(b, printed, b.bptr + 8)}

\* a walk that tests for "main" only after reading the caller's frame
BtFrameLateTest ==
    /\ bt.phase = "walk"
    /\ LET function == unwrap_or_placeholder(get_function_from_addr(bt.iptr))
           printed == BtPrinted(bt.frames, [pc |-> bt.iptr, name |-> function])
       IN  bt' \in {IF function = "main" /\ r.phase = "walk"
                    THEN [r EXCEPT !.phase = "done", !.stop = "main", !.turn = 1 - @]
                    ELSE [r EXCEPT !.turn = 1 - @] : r \in BtReadOutcomes(bt, printed)}
    /\ UNCHANGED <<mem, traceeVars, breakpoints_map, ctl, bp, rip2, requested, histVars,
                   disturb, callVars, wb, wt,
                   progVars>>

\* lines 149-175: one turn of the loop; the frame is printed, the walk ends
\* at "main" or at a failing ptrace::read, else moves to the caller's frame
\* (turn is the parity of the turns taken: a turn is a step even when it
\* comes back to the same frame)
BtFrame ==
    /\ bt.phase = "walk"
    /\ LET function == unwrap_or_placeholder(get_function_from_addr(bt.iptr))
           printed == BtPrinted(bt.frames, [pc |-> bt.iptr, name |-> function])
       IN  bt' \in {[r EXCEPT !.turn = 1 - @] :
                        r \in IF function = "main"
                              THEN {[bt EXCEPT !.frames = printed, !.phase = "done",
                                               !.stop = "main"]}
                              ELSE BtReadOutcomes(bt, printed)}
    /\ UNCHANGED <<mem, traceeVars, breakpoints_map, ctl, bp, rip2, requested, histVars,
                   disturb, callVars, wb, wt,
                   progVars>>

NextBT ==
    \/ BtGetRegs
    \/ BtFrame

SpecBT == InitBT /\ [][NextBT]_vars

\* the walk goes on while it can
FairSpecBT == SpecBT /\ WF_vars(NextBT)

\* ------------------------------------------------------- farm: is_prime
\* largest number tried
MaxNum == 100
DeetIdle ==
    /\ MachineInit
    /\ mem = ProgramBytes
    /\ tstate = "nochild"
    /\ event = NoEvent
    /\ wb = NoWb
    /\ wt = NoWt
    /\ bt = NoBt

\* (num as f64).sqrt().floor() as u32
sqrt_floor(num) == CHOOSE r \in 0..num : r * r <= num /\ (r + 1) * (r + 1) > num

\* is_prime, lines 9-19: the range 2..sqrt_floor(num) leaves its end out
is_prime(num) ==
    IF num <= 1 THEN FALSE
    ELSE \A factor \in 2..(sqrt_floor(num) - 1) : num % factor # 0

InitPrime ==
    /\ DeetIdle
    /\ \E num \in 0..MaxNum : ip = [done |-> FALSE, num |-> num, out |-> FALSE]
    /\ farm = NoFarm
    /\ pm = NoPm
    /\ lb = NoLb

\* one call is_prime(num)
IsPrimeCall ==
    /\ ~ip.done
    /\ ip' = [ip EXCEPT !.done = TRUE, !.out = is_prime(ip.num)]
    /\ UNCHANGED <<deetVars, farm, pm, lb>>

NextPrime == IsPrimeCall

SpecPrime == InitPrime /\ [][NextPrime]_vars

\* ------------------------------------------------- farm: the worker threads
\* num_cpus::get(), and the most numbers given on the command line
FarmThreads == 2
MaxNums == 3
FarmWorkers == 1..FarmThreads

\* the numbers are told apart by their place on the command line
InitFarm ==
    /\ DeetIdle
    /\ ip = NoIp
    /\ pm = NoPm
    /\ lb = NoLb
    /\ \E k \in 0..MaxNums :
          farm = [main |-> "spawn", spawned |-> 0, joined |-> 0, len |-> k,
                  q |-> [i \in 1..k |-> i], lock |-> 0,
                  w |-> [t \in FarmWorkers |-> "unborn"],
                  n |-> [t \in FarmWorkers |-> 0],
                  times |-> [i \in 1..k |-> 0],
                  by |-> [i \in 1..k |-> 0]]

\* lines 77-90: main spawns the next worker, which starts at once
FarmSpawn ==
    /\ farm.main = "spawn"
    /\ farm' = [farm EXCEPT !.spawned = @ + 1,
                            !.w[farm.spawned + 1] = "lock",
                            !.main = IF farm.spawned + 1 = FarmThreads THEN "join" ELSE @]
    /\ UNCHANGED <<deetVars, ip, pm, lb>>

\* a lock that is handed out while another worker holds it
FarmLockNoMutex(t) ==
    /\ farm.w[t] = "lock"
    /\ farm' = [farm EXCEPT !.lock = t, !.w[t] = "front"]
    /\ UNCHANGED <<deetVars, ip, pm, lb>>

\* line 82: nums_ref.lock().unwrap()
FarmLock(t) ==
    /\ farm.w[t] = "lock"
    /\ farm.lock = 0
    /\ farm' = [farm EXCEPT !.lock = t, !.w[t] = "front"]
    /\ UNCHANGED <<deetVars, ip, pm, lb>>

\* line 83, pop_front: the front of the queue is read (None: 0)
FarmFront(t) ==
    /\ farm.w[t] = "front"
    /\ farm' = [farm EXCEPT !.n[t] = IF farm.q = <<>> THEN 0 ELSE Head(farm.q),
                            !.w[t] = "remove"]
    /\ UNCHANGED <<deetVars, ip, pm, lb>>

\* lines 83-84, pop_front: the front is taken off the queue; the guard is
\* dropped at the end of the block
FarmRemove(t) ==
    /\ farm.w[t] = "remove"
    /\ farm' = [farm EXCEPT !.q = IF farm.q = <<>> THEN @ ELSE Tail(@),
                            !.lock = 0,
                            !.w[t] = "match"]
    /\ UNCHANGED <<deetVars, ip, pm, lb>>

\* line 86: Some(n) => factor_number(n)
FarmFactor(t) ==
    /\ farm.w[t] = "match"
    /\ farm.n[t] # 0
    /\ farm' = [farm EXCEPT !.times[farm.n[t]] = @ + 1,
                            !.by[farm.n[t]] = t,
                            !.w[t] = "lock"]
    /\ UNCHANGED <<deetVars, ip, pm, lb>>

\* line 87: None => break
FarmBreak(t) ==
    /\ farm.w[t] = "match"
    /\ farm.n[t] = 0
    /\ farm' = [farm EXCEPT !.w[t] = "exit"]
    /\ UNCHANGED <<deetVars, ip, pm, lb>>

\* lines 93-95: handle.join() returns once that worker has ended
FarmJoin ==
    /\ farm.main = "join"
    /\ farm.w[farm.joined + 1] = "exit"
    /\ farm' = [farm EXCEPT !.joined = @ + 1,
                            !.main = IF farm.joined + 1 = FarmThreads THEN "end" ELSE @]
    /\ UNCHANGED <<deetVars, ip, pm, lb>>

NextFarm ==
    \/ FarmSpawn
    \/ \E t \in FarmWorkers : FarmLock(t)
    \/ \E t \in FarmWorkers : FarmFront(t)
    \/ \E t \in FarmWorkers : FarmRemove(t)
    \/ \E t \in FarmWorkers : FarmFactor(t)
    \/ \E t \in FarmWorkers : FarmBreak(t)
    \/ FarmJoin

SpecFarm == InitFarm /\ [][NextFarm]_vars

\* the scheduler runs a thread that can run
FairSpecFarm == SpecFarm /\ WF_vars(NextFarm)

\* ----------------------------------------------------------- parallel_map
\* num_threads, the longest input vector and the largest input value tried
PmThreads == 2
PmMaxLen == 3
PmMaxVal == 2
PmWorkers == 1..PmThreads
\* the closure of main, line 57, and Default::default() of the output type
PmF(num) == num * num
PmDefault == 0
\* ChannelMessage
ChannelMessage(index, item) == [index |-> index, item |-> item]

\* lines 14-18; holders of a result_sender: 0 is the caller, t is worker t
InitPM ==
    /\ DeetIdle
    /\ ip = NoIp
    /\ farm = NoFarm
    /\ lb = NoLb
    /\ \E input_vec \in SeqsUpTo(1..PmMaxVal, PmMaxLen) :
          pm = [main |-> "spawn", spawned |-> 0, input |-> input_vec,
                input_vec |-> input_vec, i |-> Len(input_vec),
                output_vec |-> [k \in 0..(Len(input_vec) - 1) |-> PmDefault],
                input_q |-> <<>>, result_q |-> <<>>,
                input_sender |-> TRUE, result_senders |-> {0},
                w |-> [t \in PmWorkers |-> "unborn"],
                cur |-> [t \in PmWorkers |-> ChannelMessage(0, 0)],
                applied |-> [k \in 0..(Len(input_vec) - 1) |-> 0],
                arrived |-> <<>>]

\* lines 19-33: the next worker is spawned with its clones of the channel ends
PmSpawn ==
    /\ pm.main = "spawn"
    /\ pm' = [pm EXCEPT !.spawned = @ + 1,
                        !.w[pm.spawned + 1] = "recv",
                        !.result_senders = @ \cup {pm.spawned + 1},
                        !.main = IF pm.spawned + 1 = PmThreads THEN "drop_rs" ELSE @]
    /\ UNCHANGED <<deetVars, ip, farm, lb>>

\* line 34: drop(result_sender)
PmDropResultSender ==
    /\ pm.main = "drop_rs"
    /\ pm' = [pm EXCEPT !.result_senders = @ \ {0}, !.main = "send"]
    /\ UNCHANGED <<deetVars, ip, farm, lb>>

\* lines 36-44: the last element is popped and sent with its index
PmSendInput ==
    /\ pm.main = "send"
    /\ pm.input_vec # <<>>
    /\ LET n == Len(pm.input_vec)
       IN  pm' = [pm EXCEPT !.input_vec = SubSeq(@, 1, n - 1),
                            !.i = @ - 1,
                            !.input_q = Append(@, ChannelMessage(pm.i - 1, pm.input_vec[n]))]
    /\ UNCHANGED <<deetVars, ip, farm, lb>>

\* lines 36 and 45: the vector is empty, drop(input_sender)
PmDropInputSender ==
    /\ pm.main = "send"
    /\ pm.input_vec = <<>>
    /\ pm' = [pm EXCEPT !.input_sender = FALSE, !.main = "collect"]
    /\ UNCHANGED <<deetVars, ip, farm, lb>>

\* line 23: input_receiver.recv() returns Ok(input)
PmRecv(t) ==
    /\ pm.w[t] = "recv"
    /\ pm.input_q # <<>>
    /\ pm' = [pm EXCEPT !.cur[t] = Head(pm.input_q),
                        !.input_q = Tail(@),
                        !.w[t] = "send"]
    /\ UNCHANGED <<deetVars, ip, farm, lb>>

\* lines 23 and 31: recv() returns Err, the channel being empty with its
\* sender dropped; the worker drops its result_sender and ends
PmRecvClosed(t) ==
    /\ pm.w[t] = "recv"
    /\ pm.input_q = <<>>
    /\ ~pm.input_sender
    /\ pm' = [pm EXCEPT !.w[t] = "exit", !.result_senders = @ \ {t}]
    /\ UNCHANGED <<deetVars, ip, farm, lb>>

\* lines 24-29: f is applied and the result sent with the index it came with
PmApplySend(t) ==
    /\ pm.w[t] = "send"
    /\ pm' = [pm EXCEPT !.result_q = Append(@, ChannelMessage(pm.cur[t].index,
                                                              PmF(pm.cur[t].item))),
                        !.applied[pm.cur[t].index] = @ + 1,
                        !.w[t] = "recv"]
    /\ UNCHANGED <<deetVars, ip, farm, lb>>

\* a collection that stores the results in the order they arrive
PmCollectArrival ==
    /\ pm.main = "collect"
    /\ pm.result_q # <<>>
    /\ LET result == Head(pm.result_q)
       IN  pm' = [pm EXCEPT !.output_vec[Len(pm.arrived)] = result.item,
                            !.arrived = Append(@, result.index),
                            !.result_q = Tail(@)]
    /\ UNCHANGED <<deetVars, ip, farm, lb>>

\* lines 46-48: output_vec[result.index] = result.item
PmCollect ==
    /\ pm.main = "collect"
    /\ pm.result_q # <<>>
    /\ LET result == Head(pm.result_q)
       IN  pm' = [pm EXCEPT !.output_vec[result.index] = result.item,
                            !.arrived = Append(@, result.index),
                            !.result_q = Tail(@)]
    /\ UNCHANGED <<deetVars, ip, farm, lb>>

\* lines 46 and 49: recv() returns Err, every result_sender being dropped
\* and the channel empty; output_vec is returned
PmReturn ==
    /\ pm.main = "collect"
    /\ pm.result_q = <<>>
    /\ pm.result_senders = {}
    /\ pm' = [pm EXCEPT !.main = "ret"]
    /\ UNCHANGED <<deetVars, ip, farm, lb>>

NextPM ==
    \/ PmSpawn
    \/ PmDropResultSender
    \/ PmSendInput
    \/ PmDropInputSender
    \/ \E t \in PmWorkers : PmRecv(t)
    \/ \E t \in PmWorkers : PmRecvClosed(t)
    \/ \E t \in PmWorkers : PmApplySend(t)
    \/ PmCollect
    \/ PmReturn

SpecPM == InitPM /\ [][NextPM]_vars

\* the scheduler runs a thread that can run
FairSpecPM == SpecPM /\ WF_vars(NextPM)

\* ------------------------------------------- balancebeam: live upstreams
\* upstreams given with --upstream, and connections handled at a time
LbUpstreams == 2
LbHandlers == 2
Upstreams == 1..LbUpstreams
Handlers == 1..LbHandlers

\* lines 98-112: every upstream starts alive; the health check task waits
\* for its tick, every handler is at the top of connect_to_upstream's loop
InitLB ==
    /\ DeetIdle
    /\ ip = NoIp
    /\ farm = NoFarm
    /\ pm = NoPm
    /\ lb = [on |-> TRUE,
             alive |-> [u \in Upstreams |-> TRUE],
             readers |-> 0,
             hc |-> [pc |-> "tick", idx |-> 1, dead |-> {}, live |-> {}],
             h |-> [c \in Handlers |-> [pc |-> "select", up |-> 0]]]

\* the upstreams get_live_upstream filters out of the table, lines 195-198
live_addresses(alive) == {u \in Upstreams : alive[u]}

\* a selection that draws from every upstream of the table
LbSelectAny(c) ==
    /\ lb.h[c].pc = "select"
    /\ IF live_addresses(lb.alive) = {}
       THEN lb' = [lb EXCEPT !.h[c].pc = "err"]
       ELSE \E u \in Upstreams : lb' = [lb EXCEPT !.h[c] = [pc |-> "connect", up |-> u]]
    /\ UNCHANGED <<deetVars, ip, farm, pm>>

\* lines 219 and 192-205, 228-231: get_live_upstream under the read lock (the
\* writers hold theirs for one step only); None ends the call with the error
LbSelect(c) ==
    /\ lb.h[c].pc = "select"
    /\ IF live_addresses(lb.alive) = {}
       THEN lb' = [lb EXCEPT !.h[c].pc = "err"]
       ELSE \E u \in live_addresses(lb.alive) :
               lb' = [lb EXCEPT !.h[c] = [pc |-> "connect", up |-> u]]
    /\ UNCHANGED <<deetVars, ip, farm, pm>>

\* lines 220-221: TcpStream::connect succeeds
LbConnectOk(c) ==
    /\ lb.h[c].pc = "connect"
    /\ lb' = [lb EXCEPT !.h[c].pc = "ok"]
    /\ UNCHANGED <<deetVars, ip, farm, pm>>

\* lines 220-223: TcpStream::connect fails
LbConnectFail(c) ==
    /\ lb.h[c].pc = "connect"
    /\ lb' = [lb EXCEPT !.h[c].pc = "mark"]
    /\ UNCHANGED <<deetVars, ip, farm, pm>>

\* lines 224-225 and 207-215: mark_upstream_status(upstream_ip, false) under
\* the write lock, which waits for the readers; then continue
LbMarkDead(c) ==
    /\ lb.h[c].pc = "mark"
    /\ lb.readers = 0
    /\ lb' = [lb EXCEPT !.alive[lb.h[c].up] = FALSE, !.h[c].pc = "select"]
    /\ UNCHANGED <<deetVars, ip, farm, pm>>

\* lines 121-122 and 137-140: a tick; the health check takes the read lock
HcBegin ==
    /\ lb.hc.pc = "tick"
    /\ lb' = [lb EXCEPT !.readers = @ + 1,
                        !.hc = [pc |-> "probe", idx |-> 1, dead |-> {}, live |-> {}]]
    /\ UNCHANGED <<deetVars, ip, farm, pm>>

\* lines 141-181: the next upstream is probed; is_alive is what the probe
\* finds, and the upstream is noted if that differs from the table
HcProbe ==
    /\ lb.hc.pc = "probe"
    /\ lb.hc.idx <= LbUpstreams
    /\ \E is_alive \in BOOLEAN :
          LET u == lb.hc.idx
          IN  lb' = [lb EXCEPT
                       !.hc.idx = @ + 1,
                       !.hc.live = IF is_alive # lb.alive[u] /\ is_alive THEN @ \cup {u} ELSE @,
                       !.hc.dead = IF is_alive # lb.alive[u] /\ ~is_alive THEN @ \cup {u} ELSE @]
    /\ UNCHANGED <<deetVars, ip, farm, pm>>

\* line 182: the read guard is dropped
HcEndRead ==
    /\ lb.hc.pc = "probe"
    /\ lb.hc.idx > LbUpstreams
    /\ lb' = [lb EXCEPT !.readers = @ - 1, !.hc.pc = "mark"]
    /\ UNCHANGED <<deetVars, ip, farm, pm>>

\* lines 183-185: mark_upstream_status(addr, false) for the next noted one
HcMarkDead ==
    /\ lb.hc.pc = "mark"
    /\ lb.hc.dead # {}
    /\ lb.readers = 0
    /\ LET u == CHOOSE x \in lb.hc.dead : \A y \in lb.hc.dead : x <= y
       IN  lb' = [lb EXCEPT !.alive[u] = FALSE, !.hc.dead = @ \ {u}]
    /\ UNCHANGED <<deetVars, ip, farm, pm>>

\* lines 186-188: mark_upstream_status(addr, true) for the next noted one
HcMarkLive ==
    /\ lb.hc.pc = "mark"
    /\ lb.hc.dead = {}
    /\ lb.hc.live # {}
    /\ lb.readers = 0
    /\ LET u == CHOOSE x \in lb.hc.live : \A y \in lb.hc.live : x <= y
       IN  lb' = [lb EXCEPT !.alive[u] = TRUE, !.hc.live = @ \ {u}]
    /\ UNCHANGED <<deetVars, ip, farm, pm>>

\* lines 189 and 120-121: the round is over, the task waits for the next tick
HcDone ==
    /\ lb.hc.pc = "mark"
    /\ lb.hc.dead = {}
    /\ lb.hc.live = {}
    /\ lb' = [lb EXCEPT !.hc.pc = "tick"]
    /\ UNCHANGED <<deetVars, ip, farm, pm>>

NextLB ==
    \/ \E c \in Handlers : LbSelect(c)
    \/ \E c \in Handlers : LbConnectOk(c)
    \/ \E c \in Handlers : LbConnectFail(c)
    \/ \E c \in Handlers : LbMarkDead(c)
    \/ HcBegin
    \/ HcProbe
    \/ HcEndRead
    \/ HcMarkDead
    \/ HcMarkLive
    \/ HcDone

SpecLB == InitLB /\ [][NextLB]_vars

\* ----------------------------------------------------------------- claims
IsPrefix(s, t) == Len(s) <= Len(t) /\ \A i \in 1..Len(s) : s[i] = t[i]

\* nothing from outside has touched the tracee, no wait has failed and kill()
\* has not been called
Quiet == disturb = 0 /\ klog.n = 0

\* C1: when the first continue_process call detects the trap of a breakpoint
\* installed at A, the event it returns to the caller is Stopped(SIGTRAP, A)
\* (in a run that nothing disturbs).
C1_FirstContinueReportsHit ==
    (Quiet /\ firstHit # 0 /\ firstRet # NoEvent) =>
        firstRet = Stopped("SIGTRAP", firstHit)

\* C2: the orig_byte stored for an installed address is the byte the program
\* had there before the first install, never the trap opcode, however often
\* the address is installed.
C2_ReinstallKeepsOrigByte ==
    \A a \in DOMAIN breakpoints_map :
        /\ breakpoints_map[a].orig_byte = ProgramBytes[a]
        /\ breakpoints_map[a].orig_byte # TrapOpcode

\* C3: whenever control is with the caller and the tracee is stopped, the byte
\* in tracee memory at every address of breakpoints_map is the trap opcode
\* (in a run that nothing disturbs).
C3_TableBytesAreTraps ==
    (Quiet /\ ctl = "idle" /\ tstate = "stopped") =>
        \A a \in DOMAIN breakpoints_map : mem[a] = TrapOpcode

\* C4: write_byte(addr, val) leaves memory equal to what it was with exactly
\* the byte at addr replaced by val, and returns the byte that was at addr.
C4_PatchExact ==
    wb.done =>
        /\ \A a \in Mapped : mem[a] = IF a = wb.addr THEN wb.val ELSE wb.before[a]
        /\ wb.ret = wb.before[wb.addr]
C4_Witness ==
    /\ wb.done
    /\ wb.addr = 2 * WordSize - 1
    /\ wb.val = 0
    /\ wb.before[wb.addr] = 255
    /\ wb.ret = 255
    /\ mem[wb.addr] = 0
    /\ mem[wb.addr - 1] = 255

\* C5: while the single-step of the step-over for bp is in progress, before
\* its instruction executes, the tracee's program counter is bp (in a run
\* that nothing disturbs).
C5_PcRewoundBeforeStep ==
    (Quiet /\ ctl = "cfb_wait1" /\ tstate = "stepping") => rip = bp

\* C6: from the issue of the single-step until its stop is collected, the
\* byte in tracee memory at bp is the program's original byte, not 0xcc (in
\* a run that nothing disturbs).
C6_OrigByteDuringStep ==
    (Quiet /\ ctl = "cfb_wait1") => (mem[bp] = ProgramBytes[bp] /\ mem[bp] # TrapOpcode)

\* C7: once the step-over has re-armed bp, and while the continuation it then
\* resumes is running, the byte in tracee memory at bp is the trap opcode.
C7_RearmedAtResume ==
    ctl \in {"cfb_cont1", "cfb_wait2"} => mem[bp] = TrapOpcode
C7_Witness ==
    /\ ctl = "cfb_wait2"
    /\ tstate = "running"
    /\ bp = FooAddr
    /\ mem[bp] = TrapOpcode
    /\ breakpoints_map[bp].orig_byte = ProgramBytes[bp]

\* C8: the program instructions the tracee has executed are a prefix of the
\* run of the program with no breakpoints: none skipped, none mis-decoded
\* (in a run that nothing disturbs).
C8_Transparent == Quiet => IsPrefix(executed, RefTrace)

\* C9: with the one breakpoint at the first instruction of foo, repeated
\* continue_process calls eventually return Exited (unless the caller asks
\* for another breakpoint, kills the tracee or calls wait() itself meanwhile,
\* or something disturbs the run).
C9_EventuallyExited ==
    (ctl = "idle" /\ requested = <<FooAddr>> /\ lastRet = NoEvent)
        ~> (lastRet.kind = "Exited" \/ requested # <<FooAddr>> \/ ~Quiet
            \/ ctl = "wait_call")

\* C10: the wait of the continuation resumed after the re-arm is handled as
\* continue_process handles its wait: a trap stop whose pc-1 is in the table
\* enters the step-over protocol for pc-1, any other result is returned (in
\* a run that nothing disturbs).
C10_ResumeLikeContinue ==
    [][(Quiet /\ disturb' = disturb /\ ctl = "cfb_wait2" /\ ctl' # "cfb_wait2") =>
          IF IsTrapStop(event) /\ contains_key(breakpoints_map, event.val - 1)
          THEN ctl' = "cfb_step" /\ bp' = event.val - 1
          ELSE ctl' = "idle" /\ lastRet' = wait(tstate, event)]_vars

MappedOnly(bps) == SelectSeq(bps, LAMBDA a : a # UnmappedAddr)

\* C12: a requested address whose patch fails (it is not mapped) is not added
\* to the table and changes no memory, and the other requested addresses are
\* installed all the same: before the first continue, memory and table are
\* what they would be had the failing address never been requested.
C12_FailedPatchLeavesNoTrace ==
    /\ UnmappedAddr \notin DOMAIN breakpoints_map
    /\ (Quiet /\ ctl = "idle" /\ tstate = "stopped" /\ lastRet = NoEvent) =>
          LET s == install_all(ProgramBytes, [a \in {} |-> 0], "stopped",
                               MappedOnly(requested))
          IN  mem = s.mem /\ breakpoints_map = s.map
C12_Witness ==
    /\ ctl = "idle"
    /\ tstate = "stopped"
    /\ lastRet = NoEvent
    /\ requested = <<UnmappedAddr, FooAddr>>
    /\ DOMAIN breakpoints_map = {FooAddr}
    /\ mem[FooAddr] = TrapOpcode

\* C13: Inferior::new returns None, with nothing installed, whenever the
\* spawn fails or the first wait reports anything but a stop, and returns a
\* tracee only when the first wait reported a stop.
C13_NewFailsUnlessStopped ==
    /\ newWait.kind \in {"SpawnErr", "Exited", "Signaled", "Err"} =>
          (ctl = "none" /\ DOMAIN breakpoints_map = {})
    /\ ctl \notin {"start", "new_wait", "none", "panic"} => newWait.kind = "Stopped"

\* C14: when Inferior::new has returned None after the spawn, the spawned
\* process is terminated and reaped.
C14_NoChildLeftAfterFailedNew ==
    ctl = "none" => tstate \in {"reaped", "nochild"}

\* C16: a call of kill() returns normally to the caller in every state of
\* the tracee (stopped, terminated, reaped), whatever child.kill() and
\* child.wait() return.
C16_KillAlwaysReturns ==
    [][klog'.n # klog.n => (ctl = "idle" /\ ctl' = "idle")]_vars
C16_Witness ==
    /\ ctl = "idle"
    /\ klog.n = 1
    /\ ~klog.alive
    /\ klog.kill = "Err"
    /\ klog.wait = ErrRet
    /\ lastRet = Exited(0)
    /\ tstate = "reaped"

\* C17: a wait() called after kill() returns the tracee's termination, and
\* Signaled(SIGKILL) if the tracee was alive when kill() was called.
C17_WaitAfterKillReportsTermination ==
    (klog.n > 0 /\ lastWait # NoEvent) =>
        /\ lastWait.kind \in {"Exited", "Signaled"}
        /\ klog.alive => lastWait = Signaled("SIGKILL")

\* C18: no failure of an operation of new, continue_process or
\* continue_from_breakpoint makes the controller panic.
C18_NoPanicOnFailure == ctl # "panic"

\* C19: with no breakpoint ever requested and nothing disturbing the run, the
\* first continue_process returns Exited(0).
C19_NoBreakpointsExitedZero ==
    (Quiet /\ requested = <<>> /\ firstRet # NoEvent) => firstRet = Exited(0)
C19_Witness ==
    /\ Quiet
    /\ requested = <<>>
    /\ ctl = "idle"
    /\ firstRet = Exited(0)
    /\ executed = RefTrace
    /\ tstate = "reaped"

\* C15: wait() turns an exit with a code into Exited(code), a termination by
\* a signal into Signaled(signal), a stop into Stopped(signal, rip of the
\* registers) (an error if the registers cannot be read), and panics on every
\* other category of wait status, which it returns neither as a Status nor
\* as an Err.
C15_WaitMapsOrPanics ==
    (wt.done /\ wt.wpOk) =>
        CASE wt.wp.kind = "Exited" -> wt.out = [kind |-> "Exited", sig |-> "-", val |-> wt.wp.val]
          [] wt.wp.kind = "Signaled" ->
                wt.out = [kind |-> "Signaled", sig |-> wt.wp.sig, val |-> 0]
          [] wt.wp.kind = "Stopped" /\ wt.regsOk ->
                wt.out = [kind |-> "Stopped", sig |-> wt.wp.sig, val |-> wt.regsRip]
          [] wt.wp.kind = "Stopped" /\ ~wt.regsOk -> wt.out.kind = "Err"
          [] OTHER -> wt.out.kind = "Panic"
C15_Witness ==
    /\ wt.done
    /\ wt.wpOk
    /\ wt.wp.kind = "StillAlive"
    /\ wt.out = PanicRet

\* C20: the first frame print_backtrace prints is the one of the current pc;
\* a frame named "main" is the last one printed, the walk ends with it and
\* nothing is read from the tracee after it; a frame whose function is not
\* found is printed under the placeholder name and does not end the walk.
C20_BacktraceStopsAtMain ==
    bt.phase \in {"walk", "done"} =>
        /\ Len(bt.frames) >= 1 => bt.frames[1].pc = bt.rip
        /\ \A i \in 1..Len(bt.frames) :
              /\ bt.frames[i].name = "main" =>
                    /\ i = Len(bt.frames)
                    /\ bt.phase = "done"
                    /\ bt.stop = "main"
                    /\ bt.nreads = 2 * (i - 1)
              /\ get_function_from_addr(bt.frames[i].pc) = NoName =>
                    /\ bt.frames[i].name = "Unable to get function name"
                    /\ (i = Len(bt.frames) /\ bt.phase = "done") =>
                          bt.stop \in {"read_rip", "read_rbp"}
C20_Witness ==
    /\ bt.phase = "done"
    /\ bt.stop = "main"
    /\ bt.rip = PcInFoo
    /\ Len(bt.frames) = 3
    /\ bt.frames[1] = [pc |-> PcInFoo, name |-> "foo"]
    /\ bt.frames[2] = [pc |-> PcNowhere, name |-> "Unable to get function name"]
    /\ bt.frames[3] = [pc |-> PcInMain, name |-> "main"]
    /\ bt.nreads = 4

\* the frame pointer of the i-th frame of the saved-frame-pointer chain that
\* starts at the rbp of the register snapshot
RECURSIVE ChainFp(_)
ChainFp(i) == IF i = 1 THEN bt.rbp ELSE bt.smem[ChainFp(i - 1)]

\* C21: the pcs print_backtrace prints follow the saved-frame-pointer chain:
\* the first is rip, the pc of each next frame is the word at (frame pointer
\* of the frame being left) + 8, and the next frame pointer is the word at
\* that frame pointer.
C21_FramesFollowChain ==
    bt.phase \in {"walk", "done", "panic"} =>
        /\ \A i \in 1..Len(bt.frames) :
              bt.frames[i].pc = IF i = 1 THEN bt.rip ELSE bt.smem[ChainFp(i - 1) + 8]
        /\ (bt.phase = "walk" /\ Len(bt.frames) < MaxFrames) =>
              bt.bptr = ChainFp(Len(bt.frames) + 1)
C21_Witness ==
    /\ bt.phase = "done"
    /\ bt.stop = "read_rip"
    /\ bt.rbp = StackBase
    /\ bt.smem[StackBase] = StackBase + 2 * WordSize
    /\ bt.smem[StackBase + WordSize] = PcInFoo
    /\ bt.smem[StackBase + 2 * WordSize] = 0
    /\ bt.smem[StackBase + 3 * WordSize] = PcNowhere
    /\ bt.rip = PcNowhere
    /\ Len(bt.frames) = 3
    /\ bt.frames[2].pc = PcInFoo
    /\ bt.frames[3].pc = PcNowhere
    /\ bt.nreads = 5

\* C22: when getregs or a read of the walk fails, print_backtrace ends there:
\* the frame printed before the failing read is the last, the failing read
\* is the last read, the call returns without a panic, and tracee memory,
\* registers and the breakpoint table are as before.
C22_ReadFailureEndsWalk ==
    [][/\ (bt.phase \in {"call", "walk"} /\ bt'.phase = "done" /\ bt'.stop # "main") =>
             /\ bt'.stop = "regs" => (~bt.regsOk /\ bt'.frames = <<>> /\ bt'.nreads = 0)
             /\ bt'.stop \in {"read_rip", "read_rbp"} =>
                   bt'.frames = BtPrinted(bt.frames,
                                          [pc |-> bt.iptr,
                                           name |-> unwrap_or_placeholder(
                                                       get_function_from_addr(bt.iptr))])
             /\ bt'.stop = "read_rip" =>
                   /\ bt'.nreads = BtCount(bt.nreads, 1)
                   /\ (bt.bptr > UsizeMax - 8 \/ bt.bptr + 8 \notin DOMAIN bt.smem)
             /\ bt'.stop = "read_rbp" =>
                   /\ bt'.nreads = BtCount(bt.nreads, 2)
                   /\ bt.bptr \notin DOMAIN bt.smem
             /\ UNCHANGED <<mem, rip, stack, tstate, breakpoints_map, ctl>>
       /\ bt.phase = "done" => bt' = bt]_vars
C22_Witness ==
    /\ bt.phase = "done"
    /\ bt.stop = "read_rbp"
    /\ bt.rbp = StackBase - WordSize
    /\ Len(bt.frames) = 1
    /\ bt.nreads = 2
    /\ ctl = "start"
    /\ mem = ProgramBytes

\* C23: every walk of print_backtrace ends.
C23_WalkTerminates ==
    (bt.phase = "walk") ~> (bt.phase \in {"done", "panic"})

\* C24: no step removes an entry of breakpoints_map, the restore of the
\* original byte included, and the addr field of every entry is its key.
C24_EntriesPersist ==
    [][/\ DOMAIN breakpoints_map \subseteq DOMAIN breakpoints_map'
       /\ \A a \in DOMAIN breakpoints_map' : breakpoints_map'[a].addr = a]_vars
C24_Witness ==
    /\ ctl = "cfb_cont2"
    /\ contains_key(breakpoints_map, rip2 - 1)
    /\ breakpoints_map[rip2 - 1].addr = rip2 - 1
    /\ mem[rip2 - 1] = breakpoints_map[rip2 - 1].orig_byte
    /\ mem[rip2 - 1] # TrapOpcode
    /\ Len(requested) = 2

\* C25: is_prime(num) is true exactly when num is a prime number: at least
\* 2 and divisible by no number between 2 and num - 1.
C25_IsPrimeExact ==
    ip.done => (ip.out <=> (ip.num >= 2 /\ \A d \in 2..(ip.num - 1) : ip.num % d # 0))

\* C26: in the farm no number is factored twice, a worker ends only with the
\* queue empty, main is past the joins only when every number was factored
\* once and every worker has ended, and main gets past the joins.
C26_EachNumberOnce ==
    /\ [](/\ \A i \in 1..farm.len : farm.times[i] <= 1
          /\ \A t \in FarmWorkers : farm.w[t] = "exit" => farm.q = <<>>
          /\ farm.main = "end" =>
                /\ \A i \in 1..farm.len : farm.times[i] = 1
                /\ \A t \in FarmWorkers : farm.w[t] = "exit")
    /\ <>(farm.main = "end")
C26_Witness ==
    /\ farm.main = "end"
    /\ farm.len = MaxNums
    /\ \A i \in 1..farm.len : farm.times[i] = 1
    /\ farm.by[1] # farm.by[2]

\* C27: parallel_map applies f to no element twice, returns, and returns a
\* vector as long as its input whose element i is f(input[i]), f having been
\* applied to every element once.
C27_MapKeepsOrder ==
    /\ [](/\ \A k \in DOMAIN pm.applied : pm.applied[k] <= 1
          /\ pm.main = "ret" =>
                /\ DOMAIN pm.output_vec = 0..(Len(pm.input) - 1)
                /\ \A k \in DOMAIN pm.output_vec :
                      /\ pm.output_vec[k] = pm.input[k + 1] * pm.input[k + 1]
                      /\ pm.applied[k] = 1)
    /\ <>(pm.main = "ret")
C27_Witness ==
    /\ pm.main = "ret"
    /\ pm.input = <<1, 2, 1>>
    /\ pm.arrived = <<1, 2, 0>>
    /\ pm.output_vec[0] = 1
    /\ pm.output_vec[1] = 4
    /\ pm.output_vec[2] = 1

\* C28: connect_to_upstream attempts a connection only to an upstream that
\* was marked alive when it was selected; after a failed attempt it marks
\* that upstream dead before it selects again; and it returns the "No live
\* upstreams" error only from a selection that found no upstream alive.
C28_OnlyLiveUpstreams ==
    [][\A c \in Handlers :
          /\ (lb.h[c].pc # "connect" /\ lb'.h[c].pc = "connect") =>
                (lb.h[c].pc = "select" /\ lb.alive[lb'.h[c].up])
          /\ (lb.h[c].pc = "connect" /\ lb'.h[c].pc \notin {"connect", "ok"}) =>
                (lb'.h[c].pc = "mark" /\ lb'.h[c].up = lb.h[c].up)
          /\ (lb.h[c].pc = "mark" /\ lb'.h[c].pc # "mark") =>
                (lb'.h[c].pc = "select" /\ ~lb'.alive[lb.h[c].up])
          /\ (lb.h[c].pc # "select" /\ lb'.h[c].pc = "select") => lb.h[c].pc = "mark"
          /\ (lb.h[c].pc # "err" /\ lb'.h[c].pc = "err") =>
                (lb.h[c].pc = "select" /\ \A u \in Upstreams : ~lb.alive[u])]_vars
C28_Witness ==
    /\ lb.h[1].pc = "err"
    /\ lb.h[2].pc = "connect"
    /\ ~lb.alive[lb.h[2].up]
    /\ lb.hc.pc = "mark"
    /\ lb.hc.live # {}

====
